---- MODULE Spec2Model ----
(***************************************************************************)
(* A model of UFL's expression nodes, differentiation operators            *)
(* (ufl/differentiation.py), form-argument terminals (ufl/coefficient.py,   *)
(* ufl/argument.py) and the replace algorithm (ufl/algorithms/replace.py). *)
(*                                                                         *)
(* An expression is a record; its field id is the identity of the Python   *)
(* object (two records that differ only in id are equal-looking but        *)
(* distinct objects).  The variable x is an expression the constructors    *)
(* have built; a call of a constructor, of replace or of == on it is one   *)
(* action, and the variable call records its arguments and its outcome.    *)
(***************************************************************************)
EXTENDS Integers, Sequences, FiniteSets

VARIABLES x, call

vars == <<x, call>>

\* Nesting depth of the expressions the calls are made on (a terminal is 1).
MaxDepth == 3

\* Length of the index tuples passed to SpatialDerivative.
MaxIdxLen == 4

(***************************************************************************)
(* Sequences and sets                                                      *)
(***************************************************************************)
Range(s) == {s[p] : p \in DOMAIN s}

Occ(s, t) == Cardinality({p \in DOMAIN s : s[p] = t})

SetMax(S) == CHOOSE m \in S : \A n \in S : n <= m

RECURSIVE SeqsUpTo(_, _)
SeqsUpTo(S, n) ==
    IF n = 0 THEN {<<>>}
    ELSE LET shorter == SeqsUpTo(S, n - 1)
         IN shorter \cup {Append(s, t) : s \in {r \in shorter : Len(r) = n - 1}, t \in S}

Tail1(s) == IF s = <<>> THEN <<>> ELSE Tail(s)

(***************************************************************************)
(* Cells, elements                                                         *)
(***************************************************************************)
domain2dim(domain) ==
    CASE domain = "interval" -> 1
      [] domain = "triangle" -> 2
      [] domain = "tetrahedron" -> 3

NoElement == [ty |-> "None", fam |-> "", cell |-> "", deg |-> 0, vs |-> <<>>]

FiniteElement(fam, cell, deg) ==
    [ty |-> "FiniteElement", fam |-> fam, cell |-> cell, deg |-> deg, vs |-> <<>>]

VectorElement(fam, cell, deg, dim) ==
    [ty |-> "VectorElement", fam |-> fam, cell |-> cell, deg |-> deg, vs |-> <<dim>>]

TensorElement(fam, cell, deg, shape) ==
    [ty |-> "TensorElement", fam |-> fam, cell |-> cell, deg |-> deg, vs |-> shape]

(***************************************************************************)
(* Index tokens: an Index object is a positive number, a fixed integer n   *)
(* of a MultiIndex is the number -(n+1).                                   *)
(***************************************************************************)
IsIndex(t) == t > 0

(***************************************************************************)
(* Expression nodes                                                        *)
(***************************************************************************)
NoExpr ==
    [k |-> "None", id |-> 0, el |-> NoElement, cnt |-> 0, sh |-> <<>>, dim |-> 0,
     ix |-> <<>>, fi |-> <<>>, rep |-> <<>>, idim |-> {}, dxfi |-> <<>>,
     dxrep |-> <<>>, a |-> <<>>]

Node(k, id) == [NoExpr EXCEPT !.k = k, !.id = id]

TerminalKinds ==
    {"Coefficient", "Constant", "VectorConstant", "TensorConstant", "Argument",
     "Zero", "ScalarValue", "Identity"}

IsTerminal(e) == e.k \in TerminalKinds

\* isinstance(e, cls) for the form-argument classes.
IsInstance(e, cls) ==
    CASE cls = "Coefficient" ->
           e.k \in {"Coefficient", "Constant", "VectorConstant", "TensorConstant"}
      [] cls = "ConstantBase" -> e.k \in {"Constant", "VectorConstant", "TensorConstant"}
      [] OTHER -> e.k = cls

spatially_constant_types ==
    {"ScalarValue", "Zero", "Identity", "Constant", "VectorConstant", "TensorConstant"}

IsSpatiallyConstant(e) == e.k \in spatially_constant_types

\* Terminal constructors.
Coefficient(element, count, id) ==
    [Node("Coefficient", id) EXCEPT !.el = element, !.cnt = count]

Constant(cell, count, id) ==
    [Node("Constant", id) EXCEPT !.el = FiniteElement("DG", cell, 0), !.cnt = count]

VectorConstant(cell, dim, count, id) ==
    [Node("VectorConstant", id) EXCEPT !.el = VectorElement("DG", cell, 0, dim),
                                       !.cnt = count]

TensorConstant(cell, shape, count, id) ==
    [Node("TensorConstant", id) EXCEPT !.el = TensorElement("DG", cell, 0, shape),
                                       !.cnt = count]

Argument(element, count, id) ==
    [Node("Argument", id) EXCEPT !.el = element, !.cnt = count]

Zero(shape, id) == [Node("Zero", id) EXCEPT !.sh = shape]

ScalarValue(value, id) == [Node("ScalarValue", id) EXCEPT !.cnt = value]

Identity(dim, id) == [Node("Identity", id) EXCEPT !.dim = dim, !.sh = <<dim, dim>>]

\* Outcome of a call: a returned expression, or an error.
Ok(e) == [st |-> "ok", err |-> "", v |-> e]

Err(what) == [st |-> "error", err |-> what, v |-> NoExpr]

(***************************************************************************)
(* Accessors                                                               *)
(***************************************************************************)
RECURSIVE Shape(_)
Shape(e) ==
    CASE e.k \in {"Coefficient", "Constant", "VectorConstant", "TensorConstant",
                  "Argument"} -> e.el.vs
      [] e.k \in {"Zero", "Identity"} -> e.sh
      [] e.k = "ScalarValue" -> <<>>
      [] e.k \in {"SpatialDerivative", "VariableDerivative", "Indexed"} -> e.sh
      [] e.k = "Grad" -> <<e.dim>> \o Shape(e.a[1])
      [] e.k = "Div" -> Tail1(Shape(e.a[1]))
      [] e.k = "Curl" -> <<e.dim>>
      [] e.k = "Rot" -> <<>>
      [] e.k \in {"Variable", "CoefficientDerivative"} -> Shape(e.a[1])
      [] OTHER -> <<>>

Rank(e) == Len(Shape(e))

RECURSIVE FreeIndices(_)
FreeIndices(e) ==
    CASE e.k \in {"SpatialDerivative", "VariableDerivative", "Indexed"} -> e.fi
      [] e.k \in {"Grad", "Div", "Curl", "Rot", "Variable", "CoefficientDerivative"} ->
           FreeIndices(e.a[1])
      [] OTHER -> <<>>

RECURSIVE IndexDimensions(_)
IndexDimensions(e) ==
    CASE e.k \in {"SpatialDerivative", "VariableDerivative", "Indexed"} -> e.idim
      [] e.k \in {"Grad", "Div", "Curl", "Rot", "Variable", "CoefficientDerivative"} ->
           IndexDimensions(e.a[1])
      [] OTHER -> {}

DimOf(idim, i) == (CHOOSE p \in idim : p[1] = i)[2]

\* The geometric domain of an expression, "" when it has none.
RECURSIVE Domain(_)
Domain(e) ==
    CASE e.k \in {"Coefficient", "Constant", "VectorConstant", "TensorConstant",
                  "Argument"} -> e.el.cell
      [] e.k \in {"Zero", "ScalarValue", "Identity", "None"} -> ""
      [] e.k = "VariableDerivative" ->
           IF Domain(e.a[1]) # "" THEN Domain(e.a[1]) ELSE Domain(e.a[2])
      [] OTHER -> Domain(e.a[1])

RECURSIVE Ids(_)
Ids(e) == {e.id} \cup UNION {Ids(e.a[p]) : p \in DOMAIN e.a}

RECURSIVE Leaves(_)
Leaves(e) ==
    IF e.a = <<>> THEN <<e>>
    ELSE IF Len(e.a) = 1 THEN Leaves(e.a[1])
    ELSE Leaves(e.a[1]) \o Leaves(e.a[2])

\* An object id no node of the given expressions has (a new allocation).
FreshId(es) == 1 + SetMax({100} \cup UNION {Ids(e) : e \in es})

(***************************************************************************)
(* Index algebra                                                           *)
(***************************************************************************)
RECURSIVE OnceIn(_, _, _)
OnceIn(s, all, n) ==
    IF s = <<>> THEN <<>>
    ELSE IF IsIndex(Head(s)) /\ Occ(all, Head(s)) = n /\ Occ(s, Head(s)) = n
         THEN <<Head(s)>> \o OnceIn(Tail(s), all, n)
         ELSE OnceIn(Tail(s), all, n)

RECURSIVE DimsOfFree(_, _, _)
DimsOfFree(s, d, all) ==
    IF s = <<>> THEN <<>>
    ELSE IF IsIndex(Head(s)) /\ Occ(all, Head(s)) = 1
         THEN <<Head(d)>> \o DimsOfFree(Tail(s), Tail(d), all)
         ELSE DimsOfFree(Tail(s), Tail(d), all)

NoDims(indices) == [p \in DOMAIN indices |-> 0]

extract_indices(indices, dimensions) ==
    LET pos == {p \in DOMAIN indices : IsIndex(indices[p])}
    IN IF \E p \in pos : Occ(indices, indices[p]) > 2
       THEN [ok |-> FALSE, free |-> <<>>, rep |-> <<>>, shape |-> <<>>, idim |-> {}]
       ELSE IF \E p, q \in pos : indices[p] = indices[q] /\ dimensions[p] # dimensions[q]
       THEN [ok |-> FALSE, free |-> <<>>, rep |-> <<>>, shape |-> <<>>, idim |-> {}]
       ELSE [ok |-> TRUE,
             free |-> OnceIn(indices, indices, 1),
             rep |-> OnceIn(indices, indices, 2),
             shape |-> DimsOfFree(indices, dimensions, indices),
             idim |-> {<<indices[p], dimensions[p]>> : p \in pos}]

(***************************************************************************)
(* Nodes the differentiation operators are applied to                      *)
(***************************************************************************)
\* A[ii]: one index per axis of A; the indices occurring once are free.
Indexed(A, ii, n) ==
    IF Len(ii) # Rank(A) THEN Err("rank")
    ELSE LET r == extract_indices(ii, Shape(A))
         IN IF ~r.ok THEN Err("index")
            ELSE Ok([Node("Indexed", n) EXCEPT !.a = <<A>>, !.ix = ii, !.fi = r.free,
                                               !.rep = r.rep, !.idim = r.idim])

\* variable(e): a labelled expression with e's shape and free indices.
Variable(e, n) == Ok([Node("Variable", n) EXCEPT !.a = <<e>>])

\* derivative(f, w): the unexpanded marker of the Gateaux derivative of f with
\* respect to the coefficient w, in the direction TrialFunction(w.element()).
CoefficientDerivative(f, w, n) ==
    Ok([Node("CoefficientDerivative", n) EXCEPT !.a = <<f>>, !.el = w.el, !.cnt = w.cnt])

(***************************************************************************)
(* ufl/differentiation.py                                                  *)
(***************************************************************************)
\* SpatialDerivative.__new__: TRUE when it returns Zero instead of a new node.
SpatialDerivativeIsZero(expression, indices) ==
    LET ind == SelectSeq(indices, IsIndex)
        si == Range(ind)
    IN /\ IsTerminal(expression)
       /\ Len(ind) = 2 * Cardinality(si)
       /\ IsSpatiallyConstant(expression)

SpatialDerivativeInit(expression, indices, n) ==
    LET dx == extract_indices(indices, NoDims(indices))
        domain == Domain(expression)
        dim == domain2dim(domain)
        fi == FreeIndices(expression)
        fid == IndexDimensions(expression)
        indices2 == fi \o dx.free
        dimensions == [p \in DOMAIN fi |-> DimOf(fid, fi[p])]
                        \o [p \in DOMAIN dx.free |-> dim]
        r == extract_indices(indices2, dimensions)
    IN IF ~dx.ok THEN Err("index")
       ELSE IF domain = "" THEN Err("domain")
       ELSE IF ~r.ok THEN Err("index")
       ELSE Ok([Node("SpatialDerivative", n) EXCEPT
                    !.a = <<expression>>, !.ix = indices,
                    !.dxfi = dx.free, !.dxrep = dx.rep,
                    !.fi = r.free, !.rep = r.rep, !.sh = r.shape, !.idim = r.idim])

SpatialDerivative(expression, indices, n) ==
    IF SpatialDerivativeIsZero(expression, indices)
    THEN Ok(Zero(Shape(expression), n))
    ELSE SpatialDerivativeInit(expression, indices, n)

SymDiff(A, B) == (A \ B) \cup (B \ A)

\* VariableDerivative.__new__: TRUE when it returns Zero instead of a new node.
VariableDerivativeIsZero(f, v) ==
    /\ f.k # "Variable"
    /\ IsTerminal(f)
    /\ SymDiff(Range(FreeIndices(f)), Range(FreeIndices(v))) = {}

VariableDerivativeInit(f, v, n) ==
    LET fi == FreeIndices(f)
        vi == FreeIndices(v)
        fid == IndexDimensions(f)
        vid == IndexDimensions(v)
    IN IF v.k = "Indexed" /\ v.a[1].k # "Variable" THEN Err("variable")
       ELSE IF v.k = "Indexed" THEN Err("NameError")
       ELSE IF v.k # "Variable" THEN Err("variable")
       ELSE IF SymDiff(Range(fi), Range(vi)) # {} THEN Err("repeated")
       ELSE Ok([Node("VariableDerivative", n) EXCEPT
                    !.a = <<f, v>>, !.fi = fi \o vi,
                    !.idim = {p \in fid : \A q \in vid : q[1] # p[1]} \cup vid,
                    !.sh = Shape(f) \o Shape(v)])

VariableDerivative(f, v, n) ==
    IF VariableDerivativeIsZero(f, v)
    THEN Ok(Zero(Shape(f), n))
    ELSE VariableDerivativeInit(f, v, n)

\* Grad with the short-circuit returning Zero of f's own shape.
GradZeroOfOperandShape(f, n) ==
    IF IsSpatiallyConstant(f)
    THEN IF Domain(f) = "" THEN Err("domain") ELSE Ok(Zero(Shape(f), n))
    ELSE IF Domain(f) = "" THEN Err("domain")
    ELSE IF FreeIndices(f) # <<>> THEN Err("free_indices")
    ELSE Ok([Node("Grad", n) EXCEPT !.a = <<f>>, !.dim = domain2dim(Domain(f))])

Grad(f, n) ==
    IF IsSpatiallyConstant(f)
    THEN IF Domain(f) = "" THEN Err("domain")
         ELSE Ok(Zero(<<domain2dim(Domain(f))>> \o Shape(f), n))
    ELSE IF Domain(f) = "" THEN Err("domain")
    ELSE IF FreeIndices(f) # <<>> THEN Err("free_indices")
    ELSE Ok([Node("Grad", n) EXCEPT !.a = <<f>>, !.dim = domain2dim(Domain(f))])

Div(f, n) ==
    IF IsSpatiallyConstant(f) THEN Ok(Zero(Tail1(Shape(f)), n))
    ELSE IF ~(Rank(f) >= 1) THEN Err("rank")
    ELSE IF FreeIndices(f) # <<>> THEN Err("free_indices")
    ELSE Ok([Node("Div", n) EXCEPT !.a = <<f>>])

\* Curl with the rank test f.rank() >= 1.
CurlRankAtLeastOne(f, n) ==
    IF ~(Rank(f) >= 1) THEN Err("rank")
    ELSE IF FreeIndices(f) # <<>> THEN Err("free_indices")
    ELSE IF Domain(f) = "" THEN Err("domain")
    ELSE Ok([Node("Curl", n) EXCEPT !.a = <<f>>, !.dim = domain2dim(Domain(f))])

Curl(f, n) ==
    IF Rank(f) # 1 THEN Err("rank")
    ELSE IF FreeIndices(f) # <<>> THEN Err("free_indices")
    ELSE IF Domain(f) = "" THEN Err("domain")
    ELSE Ok([Node("Curl", n) EXCEPT !.a = <<f>>, !.dim = domain2dim(Domain(f))])

Rot(f, n) ==
    IF Rank(f) # 1 THEN Err("rank")
    ELSE IF FreeIndices(f) # <<>> THEN Err("free_indices")
    ELSE Ok([Node("Rot", n) EXCEPT !.a = <<f>>])

\* type(o)(*ops): a node of o's class over new operands.
Construct(o, ops, n) ==
    CASE o.k = "SpatialDerivative" -> SpatialDerivative(ops[1], o.ix, n)
      [] o.k = "VariableDerivative" -> VariableDerivative(ops[1], ops[2], n)
      [] o.k = "Grad" -> Grad(ops[1], n)
      [] o.k = "Div" -> Div(ops[1], n)
      [] o.k = "Curl" -> Curl(ops[1], n)
      [] o.k = "Rot" -> Rot(ops[1], n)
      [] o.k = "Indexed" -> Indexed(ops[1], o.ix, n)
      [] o.k = "Variable" -> Variable(ops[1], n)
      [] o.k = "CoefficientDerivative" -> CoefficientDerivative(ops[1], o, n)
      [] OTHER -> Err("terminal")

(***************************************************************************)
(* Equality, repr and hash of terminals (ufl/coefficient.py,               *)
(* ufl/argument.py)                                                        *)
(***************************************************************************)
\* The canonical string of a terminal, as the record of what is formatted.
Repr(e) ==
    CASE e.k \in {"Coefficient", "Argument"} ->
           [cls |-> e.k, el |-> e.el, cell |-> "", dims |-> <<>>, cnt |-> e.cnt]
      [] e.k = "Constant" ->
           [cls |-> e.k, el |-> NoElement, cell |-> e.el.cell, dims |-> <<>>, cnt |-> e.cnt]
      [] e.k = "VectorConstant" ->
           [cls |-> e.k, el |-> NoElement, cell |-> e.el.cell, dims |-> <<e.el.vs[1]>>,
            cnt |-> e.cnt]
      [] e.k = "TensorConstant" ->
           [cls |-> e.k, el |-> NoElement, cell |-> e.el.cell, dims |-> e.el.vs,
            cnt |-> e.cnt]
      [] OTHER ->
           [cls |-> e.k, el |-> NoElement, cell |-> "", dims |-> e.sh, cnt |-> e.cnt]

\* Coefficient.__eq__, inherited by the Constant classes.
CoefficientEq(self, other) ==
    IsInstance(other, "Coefficient") /\ self.el = other.el /\ self.cnt = other.cnt

\* Argument.__eq__.
ArgumentEq(self, other) ==
    IsInstance(other, "Argument") /\ self.el = other.el /\ self.cnt = other.cnt

\* __eq__ of the remaining terminals: same class, same repr.
TerminalEq(self, other) == self.k = other.k /\ Repr(self) = Repr(other)

\* self == other.
Eq(self, other) ==
    CASE IsInstance(self, "Coefficient") -> CoefficientEq(self, other)
      [] IsInstance(self, "Argument") -> ArgumentEq(self, other)
      [] OTHER -> TerminalEq(self, other)

\* hash(e): the hash of the canonical string.
Hash(e) == Repr(e)

\* Structural equality of nodes: same variant, same identity fields, equal operands.
RECURSIVE StructEq(_, _)
StructEq(e, f) ==
    /\ e.k = f.k
    /\ e.el = f.el /\ e.cnt = f.cnt /\ e.sh = f.sh /\ e.dim = f.dim /\ e.ix = f.ix
    /\ Len(e.a) = Len(f.a)
    /\ \A p \in DOMAIN e.a : StructEq(e.a[p], f.a[p])

(***************************************************************************)
(* ufl/algorithms/replace.py                                               *)
(***************************************************************************)
\* as_ufl(v): an expression is returned as it is, a Python number becomes a
\* scalar literal (a new object).
as_ufl(v, n) == IF v.k = "PyNumber" THEN ScalarValue(v.cnt, n) ELSE v

RECURSIVE has_exact_type(_, _)
has_exact_type(e, cls) ==
    e.k = cls \/ \E p \in DOMAIN e.a : has_exact_type(e.a[p], cls)

\* mapping.get(o): a dict finds the stored key of o's hash that is o or equals o.
MappingGet(mapping, o) ==
    LET hit == {p \in DOMAIN mapping :
                   /\ Hash(mapping[p].key) = Hash(o)
                   /\ (mapping[p].key.id = o.id \/ Eq(mapping[p].key, o))}
    IN IF hit = {} THEN NoExpr ELSE mapping[CHOOSE p \in hit : \A q \in hit : p <= q].val

\* Replacer.__init__ without the comparison of shapes.
ReplacerInitKeysOnly(mapping) ==
    IF ~(\A p \in DOMAIN mapping : IsTerminal(mapping[p].key)) THEN "terminal_key"
    ELSE ""

\* Replacer.__init__: "" when the mapping is accepted, else the error.
ReplacerInit(mapping) ==
    IF ~(\A p \in DOMAIN mapping : IsTerminal(mapping[p].key)) THEN "terminal_key"
    ELSE IF ~(\A p \in DOMAIN mapping : Shape(mapping[p].key) = Shape(mapping[p].val))
    THEN "shape"
    ELSE ""

\* Replacer.terminal returning the terminal whatever the mapping holds.
ReplacerTerminalKeepsAll(mapping, o) == o

\* Replacer.terminal returning mapping.get(o) as it is, None included.
ReplacerTerminalNoFallback(mapping, o) == MappingGet(mapping, o)

\* Replacer.terminal.
ReplacerTerminal(mapping, o) ==
    LET e == MappingGet(mapping, o)
    IN IF e = NoExpr THEN o ELSE e

WithN(r, n) == [st |-> r.st, err |-> r.err, v |-> r.v, n |-> n]

\* MultiFunction.reuse_if_untouched: the node itself when no operand changed,
\* else a node of its class built over the new operands.
reuse_if_untouched(o, ops, n) ==
    IF \A p \in DOMAIN ops : StructEq(ops[p], o.a[p]) THEN WithN(Ok(o), n)
    ELSE WithN(Construct(o, ops, n), n + 1)

\* map_expr_dag(Replacer(mapping), o): post-order, operands first.
RECURSIVE map_expr_dag(_, _, _)
map_expr_dag(mapping, o, n) ==
    IF IsTerminal(o) THEN WithN(Ok(ReplacerTerminal(mapping, o)), n)
    ELSE IF o.k = "CoefficientDerivative" THEN WithN(Err("derivative"), n)
    ELSE LET r1 == map_expr_dag(mapping, o.a[1], n)
         IN IF r1.st = "error" THEN r1
            ELSE IF Len(o.a) = 1 THEN reuse_if_untouched(o, <<r1.v>>, r1.n)
            ELSE LET r2 == map_expr_dag(mapping, o.a[2], r1.n)
                 IN IF r2.st = "error" THEN r2
                    ELSE reuse_if_untouched(o, <<r1.v, r2.v>>, r2.n)

\* The Gateaux derivative of e with respect to the coefficient the marker w
\* names, in the direction TrialFunction(w.element()).
RECURSIVE Gateaux(_, _, _)
Gateaux(e, w, n) ==
    IF ~\E p \in DOMAIN Leaves(e) : LET t == Leaves(e)[p]
                                    IN IsInstance(t, "Coefficient") /\ t.el = w.el
                                       /\ t.cnt = w.cnt
    THEN WithN(Ok(Zero(Shape(e), n)), n + 1)
    ELSE IF IsTerminal(e) THEN WithN(Ok(Argument(w.el, -1, n)), n + 1)
    ELSE LET d == Gateaux(e.a[1], w, n)
         IN IF d.st = "error" THEN d
            ELSE WithN(Construct(e, <<d.v>> \o Tail(e.a), d.n), d.n + 1)

\* expand_derivatives(e): every marker replaced by explicit derivative nodes.
RECURSIVE expand_derivatives(_, _)
expand_derivatives(e, n) ==
    IF IsTerminal(e) THEN WithN(Ok(e), n)
    ELSE LET r1 == expand_derivatives(e.a[1], n)
         IN IF r1.st = "error" THEN r1
            ELSE IF e.k = "CoefficientDerivative" THEN Gateaux(r1.v, e, r1.n)
            ELSE reuse_if_untouched(e, <<r1.v>> \o Tail(e.a), r1.n)

\* replace(e, mapping): the outcome and the steps the call went through.
replace(e, mapping, n) ==
    LET mapping2 == [p \in DOMAIN mapping |->
                        [key |-> mapping[p].key, val |-> as_ufl(mapping[p].val, n + p)]]
        n1 == n + Len(mapping) + 1
        marked == has_exact_type(e, "CoefficientDerivative")
        ex == IF marked THEN expand_derivatives(e, n1) ELSE WithN(Ok(e), n1)
        log1 == <<"as_ufl", "has_exact_type">>
                  \o (IF marked THEN <<"expand_derivatives">> ELSE <<>>)
        init == ReplacerInit(mapping2)
        r == map_expr_dag(mapping2, ex.v, ex.n)
    IN IF ex.st = "error" THEN [st |-> "error", err |-> ex.err, v |-> NoExpr, log |-> log1]
       ELSE IF init # ""
       THEN [st |-> "error", err |-> init, v |-> NoExpr,
             log |-> log1 \o <<"Replacer.__init__">>]
       ELSE [st |-> r.st, err |-> r.err, v |-> r.v,
             log |-> log1 \o <<"Replacer.__init__", "map_integrand_dags">>]

(***************************************************************************)
(* reconstruct of the form arguments (ufl/argument.py, ufl/coefficient.py). *)
(* An argument left out (None) is the empty tuple for count and NoElement  *)
(* for element.                                                            *)
(***************************************************************************)
\* The element and count reconstruct goes on with: an argument that is None or
\* equal to the current value becomes the current value itself.
ReconstructArgs(self, count, element) ==
    [element |-> IF element = NoElement \/ element = self.el THEN self.el ELSE element,
     count |-> IF count = <<>> \/ count[1] = self.cnt THEN self.cnt ELSE count[1]]

\* count is self._count and element is self._element
ReconstructIsSelf(self, count, element) ==
    LET a == ReconstructArgs(self, count, element)
    IN a.count = self.cnt /\ a.element = self.el

\* Argument.reconstruct
ArgumentReconstruct(self, count, element, n) ==
    LET a == ReconstructArgs(self, count, element)
    IN IF ReconstructIsSelf(self, count, element) THEN Ok(self)
       ELSE Ok(Argument(a.element, a.count, n))

\* Coefficient._reconstruct and its overrides in the Constant classes.
CoefficientReconstructNew(self, element, count, n) ==
    CASE self.k = "Constant" -> Constant(element.cell, count, n)
      [] self.k = "VectorConstant" -> VectorConstant(element.cell, element.vs[1], count, n)
      [] self.k = "TensorConstant" -> TensorConstant(element.cell, element.vs, count, n)
      [] OTHER -> Coefficient(element, count, n)

\* Coefficient.reconstruct, shared with the Constant classes.
CoefficientReconstruct(self, count, element, n) ==
    LET a == ReconstructArgs(self, count, element)
    IN IF ReconstructIsSelf(self, count, element) THEN Ok(self)
       ELSE IF a.element.vs # self.el.vs THEN Err("shape")
       ELSE Ok(CoefficientReconstructNew(self, a.element, a.count, n))

\* self.reconstruct(count, element)
reconstruct(self, count, element, n) ==
    IF IsInstance(self, "Argument") THEN ArgumentReconstruct(self, count, element, n)
    ELSE CoefficientReconstruct(self, count, element, n)

(***************************************************************************)
(* The objects the calls are made on                                       *)
(***************************************************************************)
CG1 == FiniteElement("CG", "triangle", 1)

VCG1 == VectorElement("CG", "triangle", 1, 2)

DG0 == FiniteElement("DG", "triangle", 0)

\* Terminal objects; objects 1 and 2 are equal and distinct, objects 4 and 5
\* carry equal elements and counts.
TermObjs ==
    {Coefficient(CG1, 0, 1), Coefficient(CG1, 0, 2), Coefficient(VCG1, 1, 3),
     Coefficient(DG0, 3, 4), Constant("triangle", 3, 5),
     VectorConstant("triangle", 3, 4, 6), VectorConstant("tetrahedron", 3, 5, 7),
     TensorConstant("triangle", <<2, 2>>, 6, 8), Argument(CG1, 0, 9),
     Zero(<<>>, 10), ScalarValue(1, 11), Identity(2, 12), Coefficient(VCG1, 2, 13)}

TermById(id) == CHOOSE t \in TermObjs : t.id = id

\* Second operands of VariableDerivative: variables, an indexed variable, and
\* an expression that is not a variable.
VarObjs ==
    {Variable(TermById(1), 20).v,
     Variable(Indexed(TermById(3), <<1>>, 21).v, 22).v,
     Indexed(Variable(TermById(3), 23).v, <<1>>, 24).v,
     TermById(9)}

Indices == {1, 2}

FixedIdxLists == {<<-1>>, <<-1, 1>>, <<1, -1, 1>>}

IdxLists == SeqsUpTo(Indices, MaxIdxLen) \cup FixedIdxLists

\* Replacement values: expressions and a Python number.
ValueObjs ==
    {TermById(2), TermById(5), TermById(9), TermById(6), TermById(10), TermById(13),
     [Node("PyNumber", 0) EXCEPT !.cnt = 2],
     Indexed(TermById(3), <<1>>, 30).v}

KeyObjs == {TermById(1), TermById(3), TermById(4)}

Entry(key, val) == [key |-> key, val |-> val]

\* dicts: empty, one entry, two entries, and one whose key is not a Terminal.
Mappings ==
    {<<>>}
      \cup {<<Entry(key, val)>> : key \in KeyObjs, val \in ValueObjs}
      \cup {<<Entry(TermById(1), TermById(9)), Entry(TermById(4), TermById(10))>>,
            <<Entry(Variable(TermById(1), 20).v, TermById(9))>>}

\* The count and element arguments of reconstruct (the first of each is None).
CountArgs == {<<>>, <<0>>, <<3>>, <<7>>}

ElementArgs ==
    {NoElement, CG1, VCG1, DG0, FiniteElement("CG", "tetrahedron", 1),
     VectorElement("DG", "triangle", 0, 3), VectorElement("CG", "triangle", 1, 3),
     TensorElement("DG", "triangle", 0, <<2, 2>>)}

\* The expressions one constructor call builds over e.
Build(e) ==
    LET n == FreshId({e})
        made == {Variable(e, n), Grad(e, n), Div(e, n), Curl(e, n), Rot(e, n),
                 Indexed(e, <<1>>, n), Indexed(e, <<1, 2>>, n),
                 SpatialDerivative(e, <<1>>, n), SpatialDerivative(e, <<2, 2>>, n)}
                  \cup {CoefficientDerivative(e, w, n) :
                          w \in {t \in Range(Leaves(e)) : t.k = "Coefficient"}}
                  \cup {VariableDerivative(e, v, FreshId({e, v})) : v \in VarObjs}
    IN {r.v : r \in {q \in made : q.st = "ok"}}

\* The expressions at most d - 1 nested constructor calls build over a terminal.
RECURSIVE ExprsUpTo(_)
ExprsUpTo(d) ==
    IF d <= 1 THEN TermObjs
    ELSE LET less == ExprsUpTo(d - 1)
         IN less \cup UNION {Build(e) : e \in less}

Exprs == ExprsUpTo(MaxDepth)

(***************************************************************************)
(* State: x is an expression the program has built, call the call made on  *)
(* it (its arguments and its outcome).                                     *)
(***************************************************************************)
NoCall ==
    [op |-> "none", g |-> NoExpr, ix |-> <<>>, m |-> <<>>, el |-> NoElement,
     st |-> "", err |-> "", out |-> NoExpr, log |-> <<>>, b |-> FALSE]

Called(op, g, ix, r) ==
    [NoCall EXCEPT !.op = op, !.g = g, !.ix = ix,
                   !.st = r.st, !.err = r.err, !.out = r.v]

Init == x \in Exprs /\ call = NoCall

DoSpatialDerivative ==
    /\ call = NoCall
    /\ \E indices \in IdxLists :
        /\ call' = Called("SpatialDerivative", NoExpr, indices,
                          SpatialDerivative(x, indices, FreshId({x})))
        /\ x' = x

DoVariableDerivative ==
    /\ call = NoCall
    /\ \E v \in VarObjs :
        /\ call' = Called("VariableDerivative", v, <<>>,
                          VariableDerivative(x, v, FreshId({x, v})))
        /\ x' = x

DoGrad ==
    /\ call = NoCall
    /\ call' = Called("Grad", NoExpr, <<>>, Grad(x, FreshId({x})))
    /\ x' = x

DoDiv ==
    /\ call = NoCall
    /\ call' = Called("Div", NoExpr, <<>>, Div(x, FreshId({x})))
    /\ x' = x

DoCurl ==
    /\ call = NoCall
    /\ call' = Called("Curl", NoExpr, <<>>, Curl(x, FreshId({x})))
    /\ x' = x

DoRot ==
    /\ call = NoCall
    /\ call' = Called("Rot", NoExpr, <<>>, Rot(x, FreshId({x})))
    /\ x' = x

DoReplace ==
    /\ call = NoCall
    /\ \E m \in Mappings :
        LET r == replace(x, m, FreshId({x} \cup {m[p].val : p \in DOMAIN m}
                                           \cup {m[p].key : p \in DOMAIN m}))
        IN /\ call' = [Called("replace", NoExpr, <<>>, r) EXCEPT !.m = m, !.log = r.log]
           /\ x' = x

DoEq ==
    /\ call = NoCall
    /\ IsTerminal(x)
    /\ \E other \in TermObjs :
        /\ call' = [Called("eq", other, <<>>, Ok(NoExpr)) EXCEPT !.b = Eq(x, other)]
        /\ x' = x

\* x.reconstruct(count, element); call.ix holds the count argument.
DoReconstruct ==
    /\ call = NoCall
    /\ IsInstance(x, "Coefficient") \/ IsInstance(x, "Argument")
    /\ \E count \in CountArgs, element \in ElementArgs :
        /\ call' = [Called("reconstruct", NoExpr, count,
                           reconstruct(x, count, element, FreshId({x})))
                      EXCEPT !.el = element]
        /\ x' = x

Next ==
    \/ DoSpatialDerivative
    \/ DoVariableDerivative
    \/ DoGrad
    \/ DoDiv
    \/ DoCurl
    \/ DoRot
    \/ DoReplace
    \/ DoEq
    \/ DoReconstruct

Spec == Init /\ [][Next]_vars

(***************************************************************************)
(* Claims about SpatialDerivative                                          *)
(***************************************************************************)
\* Every Index of the tuple occurs exactly twice in it.
SelfPaired(indices) ==
    \A p \in DOMAIN indices : IsIndex(indices[p]) => Occ(indices, indices[p]) = 2

\* The kinds the specification calls spatially constant.
ConstantKinds ==
    {"Zero", "Identity", "ScalarValue", "Constant", "VectorConstant", "TensorConstant"}

\* C4: SpatialDerivative(expr, indices) returns Zero, of expr's shape, exactly
\* when expr is a spatially constant terminal and every Index of indices occurs
\* exactly twice; an index occurring once or three times never yields Zero.
C4_ZeroIffConstantAndSelfPaired ==
    call.op = "SpatialDerivative" =>
        /\ (call.st = "ok" /\ call.out.k = "Zero")
             <=> (x.k \in ConstantKinds /\ SelfPaired(call.ix))
        /\ (call.st = "ok" /\ call.out.k = "Zero") => call.out.sh = Shape(x)

\* The free indices of the operand followed by the differentiation indices.
CombinedIndices == FreeIndices(x) \o call.ix

\* C10: SpatialDerivative(expr, indices) is rejected, returning neither a node
\* nor Zero, whenever some Index occurs more than twice among expr's free
\* indices together with the differentiation indices.
C10_TripleIndexRejected ==
    (/\ call.op = "SpatialDerivative"
     /\ \E p \in DOMAIN CombinedIndices :
            IsIndex(CombinedIndices[p]) /\ Occ(CombinedIndices, CombinedIndices[p]) > 2)
        => (call.st = "error" /\ call.out = NoExpr)

(***************************************************************************)
(* Claims about VariableDerivative, Div, Curl, Rot and Grad                *)
(***************************************************************************)
\* C5: VariableDerivative(f, v) with v a variable, when it does not return Zero,
\* is accepted with shape f.shape() + v.shape() whenever the free indices of f
\* and v are disjoint, and rejected whenever they share a free index.
C5_DisjointAcceptedSharedRejected ==
    (/\ call.op = "VariableDerivative"
     /\ call.g.k = "Variable"
     /\ ~(call.st = "ok" /\ call.out.k = "Zero"))
        => LET fi == Range(FreeIndices(x))
               vi == Range(FreeIndices(call.g))
           IN /\ fi \cap vi = {} =>
                    (call.st = "ok" /\ Shape(call.out) = Shape(x) \o Shape(call.g))
              /\ fi \cap vi # {} => call.st = "error"

\* C6: Div(f) fails for every operand of rank 0, spatially constant or not.
C6_DivOfScalarRejected ==
    (call.op = "Div" /\ Rank(x) = 0) => (call.st = "error" /\ call.out = NoExpr)

\* C7 as stated: Curl(f) and Rot(f) raise a rank error for every operand whose
\* shape is not exactly (dim,), dim the spatial dimension of f's domain.
C7_ShapeNotDimRejected ==
    (/\ call.op \in {"Curl", "Rot"}
     /\ Domain(x) # ""
     /\ Shape(x) # <<domain2dim(Domain(x))>>)
        => (call.st = "error" /\ call.err = "rank")

\* C7 amended: Curl(f) and Rot(f) raise a rank error for every operand whose
\* rank is not exactly 1, and accept a rank-1 operand whatever its extent (when
\* it has no free indices and, for Curl, a resolvable domain).
C7_RankNotOneRejected ==
    call.op \in {"Curl", "Rot"} =>
        /\ Rank(x) # 1 => (call.st = "error" /\ call.err = "rank" /\ call.out = NoExpr)
        /\ (/\ Rank(x) = 1
            /\ FreeIndices(x) = <<>>
            /\ (call.op = "Curl" => Domain(x) # ""))
             => (call.st = "ok" /\ call.out.k = call.op /\ call.out.a = <<x>>)

\* A Curl or Rot call on an operand whose rank is not 1, rejected.
C7_Witness ==
    /\ call.op \in {"Curl", "Rot"}
    /\ Rank(x) = 2
    /\ call.st = "error"
    /\ call.err = "rank"

\* C8: for f with a resolvable domain of dimension dim, Grad(f) is Zero of shape
\* (dim,) + f.shape() exactly when f is spatially constant, and otherwise a Grad
\* node of that shape, built only when f has no free indices; without a
\* resolvable domain Grad(f) is an error.
C8_GradShapeAndZero ==
    call.op = "Grad" =>
        IF Domain(x) = "" THEN call.st = "error" /\ call.out = NoExpr
        ELSE LET dim == domain2dim(Domain(x))
             IN /\ x.k \in ConstantKinds =>
                      /\ call.st = "ok"
                      /\ call.out.k = "Zero"
                      /\ Shape(call.out) = <<dim>> \o Shape(x)
                /\ (x.k \notin ConstantKinds /\ FreeIndices(x) = <<>>) =>
                      /\ call.st = "ok"
                      /\ call.out.k = "Grad"
                      /\ call.out.a = <<x>>
                      /\ Shape(call.out) = <<dim>> \o Shape(x)
                /\ (x.k \notin ConstantKinds /\ FreeIndices(x) # <<>>) =>
                      (call.st = "error" /\ call.out = NoExpr)

\* Grad(Constant(cell)) on a 2-D cell returned Zero((2,)).
C8_Witness ==
    /\ call.op = "Grad"
    /\ x.k = "Constant"
    /\ domain2dim(x.el.cell) = 2
    /\ call.st = "ok"
    /\ call.out.k = "Zero"
    /\ call.out.sh = <<2>>

(***************************************************************************)
(* Claims about the equality of terminals                                  *)
(***************************************************************************)
FormArgumentKinds ==
    {"Coefficient", "Constant", "VectorConstant", "TensorConstant", "Argument"}

\* C9: two form-argument terminals compare equal iff they are the same variant
\* with the same element and the same count, and equal terminals have the same
\* canonical repr; a Coefficient never equals a Constant-family node.
C9_EqualIffSameVariantElementCount ==
    (call.op = "eq" /\ x.k \in FormArgumentKinds /\ call.g.k \in FormArgumentKinds)
        => /\ call.b <=> (x.k = call.g.k /\ x.el = call.g.el /\ x.cnt = call.g.cnt)
           /\ call.b => Repr(x) = Repr(call.g)

(***************************************************************************)
(* Claims about replace                                                    *)
(***************************************************************************)
HasMarker(e) == has_exact_type(e, "CoefficientDerivative")

\* The mapping as replace sees it: every key a Terminal, every value of its
\* key's shape.
ValidMapping(m) ==
    \A p \in DOMAIN m :
        m[p].key.k \in TerminalKinds /\ Shape(m[p].key) = Shape(as_ufl(m[p].val, 0))

\* The terminal t is a key of m: some key is the same variant with the same
\* element, count and shape.
KeyOf(m, t) == {p \in DOMAIN m : StructEq(m[p].key, t)}

RECURSIVE StripIds(_)
StripIds(e) == [e EXCEPT !.id = 0, !.a = [p \in DOMAIN e.a |-> StripIds(e.a[p])]]

\* e with each terminal that is a key of m substituted by m's value for it, every
\* node above a terminal built anew by its constructor.
RECURSIVE Substituted(_, _)
Substituted(e, m) ==
    IF e.a = <<>>
    THEN Ok(IF KeyOf(m, e) = {} THEN e
            ELSE as_ufl(m[CHOOSE p \in KeyOf(m, e) : TRUE].val, 0))
    ELSE LET r1 == Substituted(e.a[1], m)
         IN IF r1.st = "error" THEN r1
            ELSE IF Len(e.a) = 1 THEN Construct(e, <<r1.v>>, 0)
            ELSE LET r2 == Substituted(e.a[2], m)
                 IN IF r2.st = "error" THEN r2 ELSE Construct(e, <<r1.v, r2.v>>, 0)

ReplaceSubstitutes ==
    LET s == Substituted(x, call.m)
    IN /\ call.st = s.st
       /\ call.st = "ok" => StripIds(call.out) = StripIds(s.v)
       /\ call.m = <<>> => (call.st = "ok" /\ call.out = x)
       /\ (IsTerminal(x) /\ Len(call.m) = 1 /\ call.m[1].key = x) =>
             /\ call.st = "ok"
             /\ call.m[1].val.k # "PyNumber" => call.out = call.m[1].val
             /\ call.m[1].val.k = "PyNumber" =>
                   (call.out.k = "ScalarValue" /\ call.out.cnt = call.m[1].val.cnt)

\* C1 as stated: for every expression e and every valid mapping m, replace(e, m)
\* is e with each key terminal substituted by its value and every other terminal
\* unchanged; replace(t, {t: v}) is v and replace(e, {}) is e.
C1_ReplaceSubstitutesEveryExpr ==
    (call.op = "replace" /\ ValidMapping(call.m)) => ReplaceSubstitutes

\* C1 amended: the same for every expression e that holds no unexpanded
\* coefficient-derivative marker (an e holding one is expanded first, so that
\* replace(e, {}) is the expanded expression); replace fails exactly when
\* rebuilding a node over a substituted operand fails.
C1_ReplaceSubstitutesUnmarked ==
    (call.op = "replace" /\ ValidMapping(call.m) /\ ~HasMarker(x)) => ReplaceSubstitutes

\* replace rebuilt a compound expression over a substituted terminal.
C1_Witness ==
    /\ call.op = "replace"
    /\ ValidMapping(call.m)
    /\ ~HasMarker(x)
    /\ call.st = "ok"
    /\ x.k = "Grad"
    /\ call.out.k = "Grad"
    /\ KeyOf(call.m, x.a[1]) # {}
    /\ call.out.a[1] = call.m[1].val
    /\ ~StructEq(call.out, x)

NoKeyIn(e, m) == \A p \in DOMAIN Leaves(e) : KeyOf(m, Leaves(e)[p]) = {}

\* Every subtree of e that holds no key is the same object in o.
RECURSIVE SharingKept(_, _, _)
SharingKept(e, o, m) ==
    IF NoKeyIn(e, m) THEN o = e
    ELSE IF e.a # <<>> /\ e.k = o.k /\ Len(e.a) = Len(o.a)
    THEN \A p \in DOMAIN e.a : SharingKept(e.a[p], o.a[p], m)
    ELSE TRUE

ReplaceShares ==
    /\ NoKeyIn(x, call.m) => (call.st = "ok" /\ call.out = x)
    /\ call.st = "ok" => SharingKept(x, call.out, call.m)

\* C2 as stated: for every expression e that contains no key of the mapping,
\* replace returns e itself, and every subtree of e not on a path to a replaced
\* terminal is the same object in the output.
C2_UntouchedIsSameObjectEveryExpr ==
    (call.op = "replace" /\ ValidMapping(call.m)) => ReplaceShares

\* C2 amended: the same for every expression e that holds no unexpanded
\* coefficient-derivative marker.
C2_UntouchedIsSameObjectUnmarked ==
    (call.op = "replace" /\ ValidMapping(call.m) /\ ~HasMarker(x)) => ReplaceShares

\* replace rebuilt a two-operand node whose first operand changed and whose
\* second operand, holding no key, is the object it was.
C2_Witness ==
    /\ call.op = "replace"
    /\ ValidMapping(call.m)
    /\ call.st = "ok"
    /\ x.k = "VariableDerivative"
    /\ call.out.k = "VariableDerivative"
    /\ call.out.id # x.id
    /\ call.out.a[1] # x.a[1]
    /\ NoKeyIn(x.a[2], call.m)
    /\ call.out.a[2] = x.a[2]

InvalidMapping(m) == ~ValidMapping(m)

\* C3 as stated: with an invalid mapping replace fails, returns no expression,
\* and has neither expanded nor traversed e before the failure.
C3_ValidatedBeforeExpansion ==
    (call.op = "replace" /\ InvalidMapping(call.m)) =>
        /\ call.st = "error"
        /\ call.out = NoExpr
        /\ "expand_derivatives" \notin Range(call.log)
        /\ "map_integrand_dags" \notin Range(call.log)

\* C3 amended: with an invalid mapping replace fails and returns no expression,
\* and the substitution traversal of e has not been performed; the validation
\* runs after the scan for coefficient-derivative markers and, when e holds one,
\* after the derivative-expansion step.
C3_ValidatedBeforeTraversal ==
    (call.op = "replace" /\ InvalidMapping(call.m)) =>
        /\ call.st = "error"
        /\ call.out = NoExpr
        /\ "map_integrand_dags" \notin Range(call.log)
        /\ "has_exact_type" \in Range(call.log)
        /\ HasMarker(x) <=> "expand_derivatives" \in Range(call.log)

\* replace rejected an invalid mapping after it had expanded the derivatives.
C3_Witness ==
    /\ call.op = "replace"
    /\ InvalidMapping(call.m)
    /\ HasMarker(x)
    /\ call.st = "error"
    /\ call.err \in {"shape", "terminal_key"}
    /\ call.log = <<"as_ufl", "has_exact_type", "expand_derivatives", "Replacer.__init__">>

(***************************************************************************)
(* Claims about reconstruct                                                *)
(***************************************************************************)
\* C11: reconstruct of an Argument, Coefficient, Constant, VectorConstant or
\* TensorConstant with an element whose value shape differs from the terminal's
\* fails with a shape-mismatch error; with no arguments, or with a count and an
\* element equal to the current ones, it returns the same object.
C11_ReconstructShapeChecked ==
    call.op = "reconstruct" =>
        /\ (call.el # NoElement /\ call.el.vs # Shape(x))
              => (call.st = "error" /\ call.err = "shape" /\ call.out = NoExpr)
        /\ ((call.ix = <<>> /\ call.el = NoElement)
               \/ (call.ix = <<x.cnt>> /\ call.el = x.el))
              => (call.st = "ok" /\ call.out = x)

(***************************************************************************)
(* Claims about the shape of SpatialDerivative                             *)
(***************************************************************************)
\* The part of the result's shape after the first Rank(x) axes.
ExtraShape ==
    IF Rank(call.out) <= Rank(x) THEN <<>>
    ELSE SubSeq(Shape(call.out), Rank(x) + 1, Rank(call.out))

\* The dimensions of the result's free indices, in their order.
FreeIndexDimensions ==
    [p \in DOMAIN FreeIndices(call.out) |->
        DimOf(IndexDimensions(call.out), FreeIndices(call.out)[p])]

\* C12: a SpatialDerivative node (not short-circuited to Zero) has a shape
\* that starts with expr.shape(), whose further axes are not the dimensions of
\* the node's free indices; every differentiation index that stays free is in
\* free_indices() and bound in index_dimensions() to the spatial dimension of
\* expr's domain.
C12_ShapeStartsWithOperandShape ==
    (call.op = "SpatialDerivative" /\ call.st = "ok" /\ call.out.k = "SpatialDerivative")
        => /\ Rank(call.out) >= Rank(x)
           /\ SubSeq(Shape(call.out), 1, Rank(x)) = Shape(x)
           /\ FreeIndices(call.out) # <<>> => ExtraShape # FreeIndexDimensions
           /\ \A i \in Range(call.out.dxfi) :
                 i \notin Range(FreeIndices(x))
                   => /\ i \in Range(FreeIndices(call.out))
                      /\ <<i, domain2dim(Domain(x))>> \in IndexDimensions(call.out)

====
